---------------------------- MODULE Spec2Model ----------------------------
(***************************************************************************)
(* The streaming XML emitter of src/src/xml/writer/emitter.rs.             *)
(*                                                                         *)
(* The state is one Emitter (its configuration, indent_level,              *)
(* indent_stack, start_document_emitted), the bytes its caller's sink has  *)
(* received, and the last event the caller issued with what it returned.   *)
(* Every public event method is one action.  A method is an operator on a  *)
(* "machine" record m that carries the emitter fields, the sink and the    *)
(* outcome so far (res); try!, io_try! and a failed unwrap() stop the      *)
(* method at the point where the code stops.                               *)
(*                                                                         *)
(* A failed unwrap() (res = "Panic") unwinds out of the event method.  The *)
(* fields keep the values they had at that point: that is the emitter a    *)
(* destructor or a caller that survives the unwinding sees, so later       *)
(* events start from it.                                                   *)
(***************************************************************************)
EXTENDS Integers, Sequences, FiniteSets, TLC

\* ------------------------------------------------------------------ bounds

\* A sink write of one event may fail: the FailAt-th write, 0 for none.
MaxFailAt == 4

\* ------------------------------------------------------- program constants

WROTE_NOTHING == 0
WROTE_MARKUP == 1
WROTE_TEXT == 2

\* Bits of a u8 frame tested by wrote_text / wrote_markup.
BitAnd(x, mask) == IF (x \div mask) % 2 = 1 THEN mask ELSE 0

\* ------------------------------------------------------------ input sets

\* Option<T>: None is the empty sequence, Some(x) is <<x>>.
None == <<>>
Some(x) == <<x>>

Versions == {"1.0", "1.1"}
Encodings == {"utf-8"}
Standalones == {None, Some(TRUE), Some(FALSE)}
Names == {"a", "p:b"}
PINames == {"pi"}

\* A Name carries its prefix and namespace URI: "a" is unprefixed and in no
\* namespace, "p:b" is local name b with prefix p in namespace "u1".
name_prefix(name) == IF name = "p:b" THEN Some("p") ELSE None
name_namespace(name) == IF name = "p:b" THEN Some("u1") ELSE None

\* NamespaceStack::resolve: the topmost frame binding the prefix wins.  A
\* frame is a function from its prefixes to URIs.
RECURSIVE resolve(_, _)
resolve(stack, prefix) ==
    IF stack = <<>> THEN None
    ELSE IF prefix \in DOMAIN stack[Len(stack)]
         THEN Some(stack[Len(stack)][prefix])
         ELSE resolve(SubSeq(stack, 1, Len(stack) - 1), prefix)
PIData == {None, Some("d")}
Contents == {"", "x", " "}
NoArg == "-"

\* Configuration strings are sequences of characters, so that len() is Len.
LineSeparators == {<<"\n">>, <<"\r", "\n">>}
IndentStrings == {<<>>, <<" ", " ">>}

\* EmitterConfig, as far as the emitter reads it (line_separator,
\* indent_string, write_document_declaration) plus perform_indent, which
\* the configuration carries and the emitter never reads.
Configs ==
    [line_separator : LineSeparators,
     indent_string : IndentStrings,
     perform_indent : BOOLEAN,
     write_document_declaration : BOOLEAN]

VARIABLES
    config,                  \* Emitter.config
    nst,                     \* Emitter.nst, one frame of bindings per scope
    indent_level,            \* Emitter.indent_level
    indent_stack,            \* Emitter.indent_stack, top is the last element
    start_document_emitted,  \* Emitter.start_document_emitted
    out,                     \* what the sink has accepted, one entry per write
    event,                   \* the last event issued, with its arguments
    result,                  \* what that event returned
    writes                   \* sink writes attempted by that event

vars == <<config, nst, indent_level, indent_stack, start_document_emitted,
          out, event, result, writes>>

\* ------------------------------------------------------------ the machine

\* The emitter and the sink at the start of an event whose fail-th write
\* the sink rejects.  res is how the method has ended ("Ok" while it is
\* still running); kept is a result the method holds in a local (`result`
\* in wrapped_with!, the value of io_wrap) while it goes on.
Machine(fail) ==
    [indent_level |-> indent_level,
     indent_stack |-> indent_stack,
     start_document_emitted |-> start_document_emitted,
     out |-> out,
     writes |-> 0,
     fail |-> fail,
     kept |-> "Ok",
     res |-> "Ok"]

\* Every operator below is a step of a method: a step after the method has
\* returned or unwound (res # "Ok") does nothing.
Ok(m) == m.res = "Ok"

panic(m) == [m EXCEPT !.res = "Panic"]

error(m, kind) == [m EXCEPT !.res = kind]

\* target.write_str(..) / write!(target, ..): one write handed to the sink.
\* A rejected write leaves nothing in the sink.
sink_accepts(m) == m.writes + 1 # m.fail

\* io_try!(write): Err returns from the method at once.
io_try(m, bytes) ==
    IF ~Ok(m) THEN m
    ELSE IF sink_accepts(m)
         THEN [m EXCEPT !.writes = @ + 1, !.out = Append(@, bytes)]
         ELSE [m EXCEPT !.writes = @ + 1, !.res = "IoError"]

\* io_wrap(write): the last write of io_chain!, whose Err is a value.
io_wrap(m, bytes) ==
    IF ~Ok(m) THEN m
    ELSE IF sink_accepts(m)
         THEN [m EXCEPT !.writes = @ + 1, !.out = Append(@, bytes)]
         ELSE [m EXCEPT !.writes = @ + 1, !.kept = "IoError"]

\* if_present!(opt, write): no write for None.
if_present(m, opt, bytes) ==
    IF opt = None THEN m ELSE io_try(m, bytes)

\* The text write! formats for an optional argument.
yes_no(standalone) ==
    IF standalone = None THEN NoArg
    ELSE IF standalone[1] THEN "yes" ELSE "no"

text_of(data) == IF data = None THEN NoArg ELSE data[1]

\* the method returns the result it has kept
return_kept(m) ==
    IF ~Ok(m) THEN m ELSE [m EXCEPT !.res = m.kept, !.kept = "Ok"]

\* ----------------------------------------------------- indent-frame flags

\* last().unwrap() / mut_last().unwrap() fail on an empty vector.
has_last(m) == Len(m.indent_stack) > 0

last(m) == m.indent_stack[Len(m.indent_stack)]

wrote_text(m) == BitAnd(last(m), WROTE_TEXT) > 0

wrote_markup(m) == BitAnd(last(m), WROTE_MARKUP) > 0

set_last(m, flag) ==
    IF ~Ok(m) THEN m
    ELSE IF has_last(m)
         THEN [m EXCEPT !.indent_stack[Len(m.indent_stack)] = flag]
         ELSE panic(m)

set_wrote_text(m) == set_last(m, WROTE_TEXT)

set_wrote_markup(m) == set_last(m, WROTE_MARKUP)

reset_state(m) == set_last(m, WROTE_NOTHING)

\* -------------------------------------------------------------- newlines

RECURSIVE write_indents(_, _)
write_indents(m, n) ==
    IF n = 0 \/ ~Ok(m) THEN m
    ELSE write_indents(io_try(m, <<"indent", config.indent_string>>), n - 1)

write_newline(m, level) ==
    write_indents(io_try(m, <<"newline", config.line_separator>>), level)

after_markup(m) == set_wrote_markup(m)

\* the tail of before_markup, after write_newline
before_markup_mark(m) ==
    IF Ok(m) /\ m.indent_level > 0 /\ Len(config.indent_string) > 0
    THEN after_markup(m)
    ELSE m

before_markup(m) ==
    IF ~Ok(m) THEN m
    ELSE IF ~has_last(m) THEN panic(m)
    ELSE IF ~wrote_text(m) /\ (m.indent_level > 0 \/ wrote_markup(m))
    THEN before_markup_mark(write_newline(m, m.indent_level))
    ELSE m

push_frame(m) ==
    IF ~Ok(m) THEN m ELSE [m EXCEPT !.indent_stack = Append(@, 0)]

before_start_element(m) == push_frame(before_markup(m))

increment_level(m) ==
    IF ~Ok(m) THEN m ELSE [m EXCEPT !.indent_level = @ + 1]

after_start_element(m) == increment_level(after_markup(m))

before_end_element(m) ==
    IF ~Ok(m) \/ m.indent_level = 0 THEN m
    ELSE IF ~has_last(m) THEN panic(m)
    ELSE IF wrote_markup(m) /\ ~wrote_text(m)
    THEN write_newline(m, m.indent_level - 1)
    ELSE m

\* after_end_element without its `indent_level > 0` test.
pop_frame_unguarded(m) ==
    IF Ok(m)
    THEN [m EXCEPT !.indent_level = @ - 1,
                   !.indent_stack =
                       IF Len(@) > 0 THEN SubSeq(@, 1, Len(@) - 1) ELSE @]
    ELSE m

pop_frame(m) ==
    IF Ok(m) /\ m.indent_level > 0
    THEN [m EXCEPT !.indent_level = @ - 1,
                   !.indent_stack =
                       IF Len(@) > 0 THEN SubSeq(@, 1, Len(@) - 1) ELSE @]
    ELSE m

after_end_element(m) == set_wrote_markup(pop_frame(m))

after_text(m) == set_wrote_text(m)

\* --------------------------------------------------------- event methods

emit_namespace_attributes(m) == m

emit_attributes(m) == m

mark_document_started(m) == [m EXCEPT !.start_document_emitted = TRUE]

\* emit_start_document once the guard has passed (lines 191-201).
start_document_markup(m, version, encoding, standalone) ==
    return_kept(after_markup(
      io_wrap(
        if_present(
          io_try(before_markup(mark_document_started(m)),
                 <<"<?xml", version, encoding>>),
          standalone, <<" standalone=", yes_no(standalone)>>),
        <<"?>">>)))

emit_start_document(m, version, encoding, standalone) ==
    IF ~Ok(m) THEN m
    ELSE IF m.start_document_emitted
    THEN error(m, "DocumentStartAlreadyEmitted")
    ELSE start_document_markup(m, version, encoding, standalone)

check_document_started(m) ==
    IF Ok(m) /\ ~m.start_document_emitted /\ config.write_document_declaration
    THEN emit_start_document(m, "1.0", "utf-8", None)
    ELSE m

emit_processing_instruction(m, name, data) ==
    return_kept(after_markup(
      io_wrap(
        if_present(
          io_try(before_markup(check_document_started(m)), <<"<?", name>>),
          data, <<" ", text_of(data)>>),
        <<"?>">>)))

emit_start_element_initial(m, name) ==
    emit_attributes(
      emit_namespace_attributes(
        io_try(before_start_element(check_document_started(m)),
               <<"<", name>>)))

emit_empty_element(m, name) ==
    return_kept(io_wrap(emit_start_element_initial(m, name), <<"/>">>))

\* The body of wrapped_with! is a block: its io_try! returns from the method,
\* the result of emit_namespace_attributes is dropped, and the result of
\* emit_attributes is kept while after_start_element runs.
emit_start_element(m, name) ==
    return_kept(after_start_element(
      emit_attributes(
        emit_namespace_attributes(
          io_try(
            before_start_element(
              check_document_started(emit_start_element_initial(m, name))),
            <<"<", name>>)))))

emit_end_element(m, name) == m

emit_cdata(m, content) == m

emit_characters(m, content) == m

emit_whitespace(m, content) == m

\* ---------------------------------------------------------------- actions

\* An event as the caller issues it; NoArg and None fill what it lacks.
Event(kind, version, encoding, standalone, name, data) ==
    [kind |-> kind, version |-> version, encoding |-> encoding,
     standalone |-> standalone, name |-> name, data |-> data]

Fails == 0 .. MaxFailAt

Init ==
    /\ config \in Configs
    /\ nst = <<>>
    /\ indent_level = 0
    /\ indent_stack = <<>>
    /\ start_document_emitted = FALSE
    /\ out = <<>>
    /\ event = Event("new", NoArg, NoArg, None, NoArg, None)
    /\ result = "Ok"
    /\ writes = 0

EmitStartDocument ==
    \E version \in Versions, encoding \in Encodings,
       standalone \in Standalones, fail \in Fails :
        LET m == emit_start_document(Machine(fail), version, encoding,
                                     standalone)
        IN /\ indent_level' = m.indent_level
           /\ indent_stack' = m.indent_stack
           /\ start_document_emitted' = m.start_document_emitted
           /\ out' = m.out
           /\ writes' = m.writes
           /\ result' = m.res
           /\ event' = Event("start_document", version, encoding,
                           standalone, NoArg, None)
           /\ UNCHANGED <<config, nst>>

EmitProcessingInstruction ==
    \E name \in PINames, data \in PIData, fail \in Fails :
        LET m == emit_processing_instruction(Machine(fail), name, data)
        IN /\ indent_level' = m.indent_level
           /\ indent_stack' = m.indent_stack
           /\ start_document_emitted' = m.start_document_emitted
           /\ out' = m.out
           /\ writes' = m.writes
           /\ result' = m.res
           /\ event' = Event("processing_instruction", NoArg, NoArg, None,
                           name, data)
           /\ UNCHANGED <<config, nst>>

EmitStartElement ==
    \E name \in Names, fail \in Fails :
        LET m == emit_start_element(Machine(fail), name)
        IN /\ indent_level' = m.indent_level
           /\ indent_stack' = m.indent_stack
           /\ start_document_emitted' = m.start_document_emitted
           /\ out' = m.out
           /\ writes' = m.writes
           /\ result' = m.res
           /\ event' = Event("start_element", NoArg, NoArg, None, name, None)
           /\ UNCHANGED <<config, nst>>

EmitEmptyElement ==
    \E name \in Names, fail \in Fails :
        LET m == emit_empty_element(Machine(fail), name)
        IN /\ indent_level' = m.indent_level
           /\ indent_stack' = m.indent_stack
           /\ start_document_emitted' = m.start_document_emitted
           /\ out' = m.out
           /\ writes' = m.writes
           /\ result' = m.res
           /\ event' = Event("empty_element", NoArg, NoArg, None, name, None)
           /\ UNCHANGED <<config, nst>>

EmitEndElement ==
    \E name \in Names, fail \in Fails :
        LET m == emit_end_element(Machine(fail), name)
        IN /\ indent_level' = m.indent_level
           /\ indent_stack' = m.indent_stack
           /\ start_document_emitted' = m.start_document_emitted
           /\ out' = m.out
           /\ writes' = m.writes
           /\ result' = m.res
           /\ event' = Event("end_element", NoArg, NoArg, None, name, None)
           /\ UNCHANGED <<config, nst>>

EmitCharacters ==
    \E content \in Contents, fail \in Fails :
        LET m == emit_characters(Machine(fail), content)
        IN /\ indent_level' = m.indent_level
           /\ indent_stack' = m.indent_stack
           /\ start_document_emitted' = m.start_document_emitted
           /\ out' = m.out
           /\ writes' = m.writes
           /\ result' = m.res
           /\ event' = Event("characters", NoArg, NoArg, None, NoArg,
                           Some(content))
           /\ UNCHANGED <<config, nst>>

EmitCdata ==
    \E content \in Contents, fail \in Fails :
        LET m == emit_cdata(Machine(fail), content)
        IN /\ indent_level' = m.indent_level
           /\ indent_stack' = m.indent_stack
           /\ start_document_emitted' = m.start_document_emitted
           /\ out' = m.out
           /\ writes' = m.writes
           /\ result' = m.res
           /\ event' = Event("cdata", NoArg, NoArg, None, NoArg, Some(content))
           /\ UNCHANGED <<config, nst>>

EmitWhitespace ==
    \E content \in Contents, fail \in Fails :
        LET m == emit_whitespace(Machine(fail), content)
        IN /\ indent_level' = m.indent_level
           /\ indent_stack' = m.indent_stack
           /\ start_document_emitted' = m.start_document_emitted
           /\ out' = m.out
           /\ writes' = m.writes
           /\ result' = m.res
           /\ event' = Event("whitespace", NoArg, NoArg, None, NoArg,
                           Some(content))
           /\ UNCHANGED <<config, nst>>

Next ==
    \/ EmitStartDocument
    \/ EmitProcessingInstruction
    \/ EmitStartElement
    \/ EmitEmptyElement
    \/ EmitEndElement
    \/ EmitCharacters
    \/ EmitCdata
    \/ EmitWhitespace

Spec == Init /\ [][Next]_vars

\* The two private end-element steps.  No event method calls them
\* (emit_end_element has an empty body), so they are applied directly to the
\* emitter in a second specification.
BeforeEndElement ==
    \E fail \in Fails :
        LET m == return_kept(before_end_element(Machine(fail)))
        IN /\ indent_level' = m.indent_level
           /\ indent_stack' = m.indent_stack
           /\ start_document_emitted' = m.start_document_emitted
           /\ out' = m.out
           /\ writes' = m.writes
           /\ result' = m.res
           /\ event' = Event("before_end_element", NoArg, NoArg, None, NoArg, None)
           /\ UNCHANGED <<config, nst>>

AfterEndElement ==
    LET m == after_end_element(Machine(0))
    IN /\ indent_level' = m.indent_level
       /\ indent_stack' = m.indent_stack
       /\ start_document_emitted' = m.start_document_emitted
       /\ out' = m.out
       /\ writes' = m.writes
       /\ result' = m.res
       /\ event' = Event("after_end_element", NoArg, NoArg, None, NoArg, None)
       /\ UNCHANGED <<config, nst>>

NextSteps ==
    \/ Next
    \/ BeforeEndElement
    \/ AfterEndElement

SpecSteps == Init /\ [][NextSteps]_vars

\* ------------------------------------------------------------------ claims

MarkupEvents == {"processing_instruction", "start_element", "empty_element"}

TextEvents == {"characters", "cdata", "whitespace"}

\* The emitter state the claims speak of.
emitter == <<start_document_emitted, indent_level, indent_stack>>

\* The elements the document in the sink has open: the tags opened and not
\* closed by "/>" (the emitter writes no end tag).
Opened(o) == Cardinality({i \in DOMAIN o : o[i][1] = "<"})
Closed(o) == Cardinality({i \in DOMAIN o : o[i][1] = "/>"})
OpenElements == Opened(out) - Closed(out)

DefaultDeclaration == <<"<?xml", "1.0", "utf-8">>

DeclarationCount(o) == Cardinality({i \in DOMAIN o : o[i][1] = "<?xml"})

\* C2: in every state, from construction on, the indent stack holds one frame
\* more than there are open elements and indent_level is the number of open
\* elements.
C2_StackDepthIsOpenElementsPlusOne ==
    /\ Len(indent_stack) = OpenElements + 1
    /\ indent_level = OpenElements

\* C3: with write_document_declaration set and no declaration emitted yet, a
\* processing-instruction, start-element or empty-element event puts the
\* default declaration first in the output (unless the sink rejects a
\* write), and the output never holds more than one declaration.
C3_AutoDeclarationFirst ==
    [][/\ DeclarationCount(out') <= 1
       /\ (/\ config.write_document_declaration
           /\ ~start_document_emitted
           /\ event'.kind \in MarkupEvents
           /\ result' # "IoError")
            => (Len(out') > 0 /\ out'[1] = DefaultDeclaration)]_vars

\* C4: with perform_indent off, the sink holds no line separator and no
\* indent string, and the indent state is still tracked: once a declaration
\* or a processing instruction has been emitted, the current frame records
\* markup.
C4_CompactOutputStateTracked ==
    [][~config.perform_indent
         => /\ \A i \in DOMAIN out' : out'[i][1] \notin {"newline", "indent"}
            /\ (/\ event'.kind \in {"start_document", "processing_instruction"}
                /\ result' \notin {"IoError", "DocumentStartAlreadyEmitted"})
                 => /\ indent_stack' # <<>>
                    /\ indent_stack'[Len(indent_stack')] = WROTE_MARKUP]_vars

\* C6: with write_document_declaration off, a processing-instruction,
\* start-element or empty-element event sets start_document_emitted, and a
\* start-document event that follows such an event is rejected and writes
\* nothing.
C6_MarkupClosesTheProlog ==
    [][/\ (~config.write_document_declaration /\ event'.kind \in MarkupEvents)
            => start_document_emitted'
       /\ (event.kind \in MarkupEvents /\ event'.kind = "start_document")
            => (result' = "DocumentStartAlreadyEmitted" /\ out' = out)]_vars

\* C7: a characters, cdata or whitespace event issued while no element is
\* open returns UnexpectedEvent, writes nothing and leaves the emitter state
\* unchanged.
C7_TextOutsideElementRejected ==
    [][(event'.kind \in TextEvents /\ OpenElements = 0)
         => /\ result' = "UnexpectedEvent"
            /\ out' = out
            /\ emitter' = emitter]_vars

\* What the event that led to this state wrote to the sink.
Written(before, after) == {after[i] : i \in (Len(before) + 1) .. Len(after)}

\* The (prefix, uri) an element of this name refers to.
Referenced(name) ==
    IF name_prefix(name) = None THEN {}
    ELSE {<<name_prefix(name)[1], name_namespace(name)[1]>>}

ElementEvents == {"start_element", "empty_element"}

\* C11: a start-element or empty-element event (whose writes the sink takes)
\* writes the declaration of a (prefix, uri) its name refers to exactly when
\* the prefix does not resolve to that uri in the enclosing scope.
C11_NamespaceDeclaredIffNew ==
    [][(event'.kind \in ElementEvents /\ result' # "IoError")
         => \A b \in Referenced(event'.name) :
              (<<"xmlns", b[1], b[2]>> \in Written(out, out'))
                <=> (resolve(nst, b[1]) # Some(b[2]))]_vars

\* C12: an empty-element event leaves indent_level and the depth of the
\* indent stack as they were, changes no frame below the current one, and
\* leaves the current frame recording markup.
C12_EmptyElementKeepsNesting ==
    [][(event'.kind = "empty_element" /\ result' # "IoError")
         => /\ indent_level' = indent_level
            /\ Len(indent_stack') = Len(indent_stack)
            /\ indent_stack' # <<>>
            /\ indent_stack'[Len(indent_stack')] = WROTE_MARKUP
            /\ \A i \in 1 .. (Len(indent_stack) - 1) :
                 indent_stack'[i] = indent_stack[i]]_vars

\* C16: whenever an event that reads or writes the top indent frame
\* (start-document, processing-instruction, start-element, empty-element) is
\* issued, the indent stack is not empty, and the event does not unwind.
C16_NoEventUnwindsOnEmptyStack ==
    [][(event'.kind \in MarkupEvents \cup {"start_document"})
         => (indent_stack # <<>> /\ result' # "Panic")]_vars

EndElementSteps == {"before_end_element", "after_end_element"}

\* C18: indent_level never goes below zero, and before_end_element or
\* after_end_element applied with no open element (indent_level = 0) leaves
\* indent_level at 0, pops no frame and writes nothing.
C18_EndElementStepsDoNotUnderflow ==
    [][/\ indent_level' >= 0
       /\ (event'.kind \in EndElementSteps /\ indent_level = 0)
            => /\ indent_level' = 0
               /\ indent_stack' = indent_stack
               /\ out' = out]_vars

\* after_end_element has been applied with no open element.
C18_Witness ==
    /\ event.kind = "after_end_element"
    /\ indent_level = 0
    /\ indent_stack = <<>>

\* ------------------------------------------------------ reachability facts

\* new() builds the emitter with an empty indent_stack, and the only push
\* (before_start_element) comes after before_markup, which unwraps the top
\* frame first.  So no frame is ever pushed, no element is ever opened and
\* no event ever reaches a sink write: the cases of the claims about
\* newlines, end tags, failed writes and written tags are not reachable.
NoFrameIsEverPushed == indent_stack = <<>> /\ indent_level = 0

NoWriteIsEverAttempted == out = <<>> /\ writes = 0

\* Every event that has markup to write unwinds; the text and end-element
\* events return Ok without doing anything.
MarkupEventsDoNotReturnOk ==
    event.kind \in MarkupEvents => result = "Panic"

\* Once the flag start_document_emitted is set, a start-document event
\* returns DocumentStartAlreadyEmitted and changes nothing.  The flag is only
\* ever set by a start-document that then unwound: no declaration is in the
\* sink in any reachable state.
SetFlagRejectsStartDocument ==
    [][(start_document_emitted /\ event'.kind = "start_document")
         => /\ result' = "DocumentStartAlreadyEmitted"
            /\ writes' = 0
            /\ out' = out
            /\ emitter' = emitter]_vars

NoDeclarationIsEverEmitted == DeclarationCount(out) = 0

=============================================================================
